---- MODULE Spec2Model ----
(***************************************************************************)
(* OKX exchange connector: the configuration loader (ConfigManager) and    *)
(* the orchestrator (main) that loads the configuration, starts the        *)
(* ingestion worker and the compute worker, lets them run for a fixed      *)
(* observation window, requests cooperative stop, joins both and reports.  *)
(***************************************************************************)
EXTENDS Integers, Sequences, FiniteSets, TLC

(***************************************************************************)
(* Bounds of the model.                                                    *)
(***************************************************************************)
\* fields of one configuration document that may be invalid at once
MaxBadFields == 1
\* frames the feed delivers during one run
MaxFrames == 2
\* inversions that can succeed during one run
MaxInversions == 2
\* time units sleep_for may overshoot the requested duration
MaxOversleep == 1
\* time units the orchestrator's waiting in join is observed for
MaxWait == 2

(***************************************************************************)
(* Text.  A std::string is a sequence of one-character strings.            *)
(***************************************************************************)
Min(a, b) == IF a < b THEN a ELSE b

\* std::string::substr(pos, n): at most n characters from pos (0-based)
Substr(s, pos, n) == SubSeq(s, pos + 1, Min(Len(s), pos + n))

EmptyStr == << >>
WssPrefix == << "w", "s", "s", ":", "/", "/" >>
WsPrefix == << "w", "s", ":", "/", "/" >>
UrlWssA == WssPrefix \o << "a" >>
UrlWsB == WsPrefix \o << "b" >>
UrlHttpC == << "h", "t", "t", "p", ":", "/", "/", "c" >>
UrlShort == << "w", "s", ":", "/" >>
KeyK == << "k" >>
SecretS == << "s" >>
PassP == << "p" >>

\* main.cpp line 78: "wss://ws.okx.com:8443/ws/v5/public"
DefaultUri == WssPrefix \o << "ws.okx.com:8443/ws/v5/public" >>

(***************************************************************************)
(* JSON documents (nlohmann::json values as ConfigManager reads them).     *)
(***************************************************************************)
requiredFields == << "url_pub", "url_private", "API_key", "API_secret", "API_passphrase" >>

FieldNames == { requiredFields[i] : i \in 1..Len(requiredFields) }

JAbsent == [type |-> "absent", str |-> EmptyStr]
JNumber == [type |-> "number", str |-> EmptyStr]
JString(s) == [type |-> "string", str |-> s]

NoFields == [f \in FieldNames |-> JAbsent]
NoSection == [type |-> "absent", fields |-> NoFields]
NullDoc == [type |-> "null", other |-> FALSE, sec |-> NoSection]
EmptyObjectDoc == [type |-> "object", other |-> FALSE, sec |-> NoSection]
OtherKeyDoc == [type |-> "object", other |-> TRUE, sec |-> NoSection]
NumberSectionDoc == [type |-> "object", other |-> FALSE, sec |-> [type |-> "number", fields |-> NoFields]]
SectionDoc(fs) == [type |-> "object", other |-> FALSE, sec |-> [type |-> "object", fields |-> fs]]

\* the values a field takes in the documents explored
GoodValues(f) ==
    IF f \in {"url_pub", "url_private"} THEN {JString(UrlWssA), JString(UrlWsB)}
    ELSE IF f = "API_key" THEN {JString(KeyK)}
    ELSE IF f = "API_secret" THEN {JString(SecretS)}
    ELSE {JString(PassP)}

BadValues(f) ==
    {JAbsent, JNumber, JString(EmptyStr)}
        \cup (IF f \in {"url_pub", "url_private"} THEN {JString(UrlHttpC), JString(UrlShort)} ELSE {})

AllValues == UNION { GoodValues(f) \cup BadValues(f) : f \in FieldNames }

SectionFieldSets ==
    { fs \in [FieldNames -> AllValues] :
        /\ \A f \in FieldNames : fs[f] \in GoodValues(f) \cup BadValues(f)
        /\ Cardinality({ f \in FieldNames : fs[f] \in BadValues(f) }) <= MaxBadFields }

Docs == {NullDoc, EmptyObjectDoc, OtherKeyDoc, NumberSectionDoc}
            \cup { SectionDoc(fs) : fs \in SectionFieldSets }

\* what the configuration file holds when loadConfig() looks at it
FileContent(kind, doc) == [kind |-> kind, doc |-> doc]
NoInput == FileContent("none", NullDoc)
Files == { FileContent(k, NullDoc) : k \in {"missing", "unopenable", "garbage", "truncated"} }
            \cup { FileContent("json", d) : d \in Docs }

\* nlohmann::json::empty(): null, or an object/array without elements
JsonEmpty(doc) == doc.type = "null" \/ (doc.type = "object" /\ ~doc.other /\ doc.sec.type = "absent")

\* m_config.contains("OKXDataSrc")
ContainsSection(doc) == doc.type = "object" /\ doc.sec.type # "absent"

\* okxSection.contains(field): false for anything that is not an object
SectionContains(sec, f) == sec.type = "object" /\ sec.fields[f].type # "absent"

(***************************************************************************)
(* Exceptions and diagnostics.                                             *)
(***************************************************************************)
\* an exception: the fixed text of its message, and the file path / key name
\* the message carries ("" and << >> when it carries none)
Error(what, path, field) == [what |-> what, path |-> path, field |-> field]
NoError == Error("none", << >>, "")

\* one line written to std::cerr: fixed text, the field name and the URL value it prints
Diag(text, field, url) == [text |-> text, field |-> field, url |-> url]

OKXConfig(pub, priv, key, secret, pass) ==
    [url_pub |-> pub, url_private |-> priv, API_key |-> key, API_secret |-> secret, API_passphrase |-> pass]
NoConfig == [has |-> FALSE, cfg |-> OKXConfig(EmptyStr, EmptyStr, EmptyStr, EmptyStr, EmptyStr)]

Modes == {"demo", "prod", "test"}
\* configPath values: "config/" and "config" (never empty: getConfigFilePath
\* calls back() on it)
Paths == { << "config", "/" >>, << "config" >> }

(***************************************************************************)
(* ConfigManager                                                           *)
(***************************************************************************)
\* ConfigManager::ConfigManager: the exception the constructor throws, if any
ConfigManagerCtor(mode, configPath) ==
    IF mode # "demo" /\ mode # "prod"
    THEN Error("Invalid mode", << >>, "")
    ELSE NoError

\* ConfigManager::getConfigFilePath
getConfigFilePath(mode, configPath) ==
    LET filename == << mode, ".json" >>
    IN IF configPath[Len(configPath)] = "/"
       THEN configPath \o filename
       ELSE configPath \o << "/" >> \o filename

\* ConfigManager::isLoaded
isLoaded(config) == ~JsonEmpty(config)

\* a validateOKXConfig whose loop does not reject empty values
RECURSIVE CheckRequiredFields_NoEmptyCheck(_, _)
CheckRequiredFields_NoEmptyCheck(okxSection, i) ==
    IF i > Len(requiredFields) THEN << >>
    ELSE LET field == requiredFields[i] IN
         IF ~SectionContains(okxSection, field)
         THEN << Diag("Missing required field in OKXDataSrc", field, EmptyStr) >>
         ELSE IF okxSection.fields[field].type # "string"
         THEN << Diag("Field must be string in OKXDataSrc", field, EmptyStr) >>
         ELSE CheckRequiredFields_NoEmptyCheck(okxSection, i + 1)

\* the loop of validateOKXConfig over requiredFields, from index i on:
\* the diagnostic of the first field that fails, or << >> when none fails
RECURSIVE CheckRequiredFields(_, _)
CheckRequiredFields(okxSection, i) ==
    IF i > Len(requiredFields) THEN << >>
    ELSE LET field == requiredFields[i] IN
         IF ~SectionContains(okxSection, field)
         THEN << Diag("Missing required field in OKXDataSrc", field, EmptyStr) >>
         ELSE IF okxSection.fields[field].type # "string"
         THEN << Diag("Field must be string in OKXDataSrc", field, EmptyStr) >>
         ELSE IF okxSection.fields[field].str = EmptyStr
         THEN << Diag("Empty value for required field in OKXDataSrc", field, EmptyStr) >>
         ELSE CheckRequiredFields(okxSection, i + 1)

\* ConfigManager::validateOKXConfig: the result and what it writes to std::cerr
validateOKXConfig(okxSection) ==
    LET loop == CheckRequiredFields(okxSection, 1) IN
    IF loop # << >> THEN [ok |-> FALSE, cerr |-> loop]
    ELSE LET url_pub == okxSection.fields["url_pub"].str
             url_private == okxSection.fields["url_private"].str
         IN IF Substr(url_pub, 0, 6) # WssPrefix /\ Substr(url_pub, 0, 5) # WsPrefix
            THEN [ok |-> FALSE, cerr |-> << Diag("Invalid public URL format", "", url_pub) >>]
            ELSE IF Substr(url_private, 0, 6) # WssPrefix /\ Substr(url_private, 0, 5) # WsPrefix
            THEN [ok |-> FALSE, cerr |-> << Diag("Invalid private URL format", "", url_private) >>]
            ELSE [ok |-> TRUE, cerr |-> << >>]

\* ConfigManager::validateConfig
validateConfig(config) ==
    IF JsonEmpty(config) THEN [ok |-> FALSE, cerr |-> << >>]
    ELSE IF ~ContainsSection(config)
    THEN [ok |-> FALSE, cerr |-> << Diag("Missing OKXDataSrc section", "", EmptyStr) >>]
    ELSE validateOKXConfig(config.sec)

\* `file >> m_config` on content that does not parse: the parser throws before or
\* after it has written a partial value into m_config
ParseFailureLeaves(config, content) ==
    IF content.kind = "garbage" THEN {config} ELSE {EmptyObjectDoc}

\* ConfigManager::loadConfig: the outcomes [m_config, thrown, cerr] of one call
loadConfig(config, mode, configPath, content) ==
    LET configFile == getConfigFilePath(mode, configPath) IN
    IF content.kind = "missing"
    THEN { [m_config |-> config, thrown |-> Error("Configuration file not found", configFile, ""), cerr |-> << >>] }
    ELSE IF content.kind = "unopenable"
    THEN { [m_config |-> config, thrown |-> Error("Failed to open configuration file", configFile, ""), cerr |-> << >>] }
    ELSE IF content.kind # "json"
    THEN { [m_config |-> c, thrown |-> Error("Failed to parse JSON configuration", << >>, ""), cerr |-> << >>] :
              c \in ParseFailureLeaves(config, content) }
    ELSE LET v == validateConfig(content.doc) IN
         IF ~v.ok
         THEN { [m_config |-> content.doc,
                 thrown |-> Error("Invalid configuration structure in file", configFile, ""),
                 cerr |-> v.cerr] }
         ELSE { [m_config |-> content.doc, thrown |-> NoError, cerr |-> << >>] }

\* okxSection.at(field).get<std::string>() for the fields from index i on: the
\* nlohmann exception of the first field that fails (out_of_range names the key,
\* type_error does not), or NoError
RECURSIVE ReadFields(_, _)
ReadFields(okxSection, i) ==
    IF i > Len(requiredFields) THEN NoError
    ELSE LET field == requiredFields[i] IN
         IF okxSection.type # "object"
         THEN Error("Failed to parse OKX configuration", << >>, "")
         ELSE IF okxSection.fields[field].type = "absent"
         THEN Error("Failed to parse OKX configuration", << >>, field)
         ELSE IF okxSection.fields[field].type # "string"
         THEN Error("Failed to parse OKX configuration", << >>, "")
         ELSE ReadFields(okxSection, i + 1)

\* a getOKXConfig that reads API_key and API_secret into each other's field
getOKXConfig_Swapped(config) ==
    IF ~isLoaded(config)
    THEN [ret |-> NoConfig, thrown |-> Error("Configuration not loaded", << >>, "")]
    ELSE IF ~ContainsSection(config)
    THEN [ret |-> NoConfig, thrown |-> Error("OKXDataSrc configuration not found", << >>, "")]
    ELSE LET okxSection == config.sec
             e == ReadFields(okxSection, 1)
         IN IF e # NoError THEN [ret |-> NoConfig, thrown |-> e]
            ELSE [ret |-> [has |-> TRUE,
                           cfg |-> OKXConfig(okxSection.fields["url_pub"].str,
                                             okxSection.fields["url_private"].str,
                                             okxSection.fields["API_secret"].str,
                                             okxSection.fields["API_key"].str,
                                             okxSection.fields["API_passphrase"].str)],
                  thrown |-> NoError]

\* ConfigManager::getOKXConfig: the value returned or the exception thrown
getOKXConfig(config) ==
    IF ~isLoaded(config)
    THEN [ret |-> NoConfig, thrown |-> Error("Configuration not loaded", << >>, "")]
    ELSE IF ~ContainsSection(config)
    THEN [ret |-> NoConfig, thrown |-> Error("OKXDataSrc configuration not found", << >>, "")]
    ELSE LET okxSection == config.sec
             e == ReadFields(okxSection, 1)
         IN IF e # NoError THEN [ret |-> NoConfig, thrown |-> e]
            ELSE [ret |-> [has |-> TRUE,
                           cfg |-> OKXConfig(okxSection.fields["url_pub"].str,
                                             okxSection.fields["url_private"].str,
                                             okxSection.fields["API_key"].str,
                                             okxSection.fields["API_secret"].str,
                                             okxSection.fields["API_passphrase"].str)],
                  thrown |-> NoError]

(***************************************************************************)
(* State.                                                                  *)
(***************************************************************************)
VARIABLES
    \* the ConfigManager object
    constructed,   \* whether the object exists
    m_mode,
    m_configPath,
    m_config,
    \* the last call on it: its name, the file content it read, what it
    \* returned, threw and wrote to std::cerr
    lastCall,
    input,
    ret,
    thrown,
    cerr,
    \* main
    pc,            \* the orchestrator's position
    pipeline,      \* "configured" (the try block), "fallback" (the handler) or "none"
    caught,        \* the exception the handler at line 66 caught
    errOut,        \* the exception whose what() line 67 printed
    uri,
    flag,
    WebSocketRequestsCount,
    heavyTasksCount,
    mutex,         \* "free", or the worker that holds it
    wsPc,          \* webSocketThread: position of the ingestion worker
    calcPc,        \* calculationThread: position of the compute worker
    elapsed,       \* time units since sleep_for was called
    waited,        \* time units spent in the joins
    reported,      \* the two totals printed at lines 63-64 / 97-98
    exitStatus,    \* -1 while the process runs
    \* history
    loaderFailed,  \* the ConfigManager threw in main
    spawnFailure,  \* the pipeline in which a std::thread could not be started
    everStarted,   \* the << pipeline, worker >> pairs ever started
    reportCount,   \* how many times the totals were printed
    defect         \* the worker, if any, that never observes the flag

cmVars == << constructed, m_mode, m_configPath, m_config, lastCall, input, ret, thrown, cerr >>

runVars == << uri, flag, WebSocketRequestsCount, heavyTasksCount, mutex, wsPc, calcPc, elapsed, waited >>

histVars == << loaderFailed, spawnFailure, everStarted, reportCount, defect >>

mainVars == << pc, pipeline, caught, errOut, runVars, reported, exitStatus, histVars >>

vars == << cmVars, mainVars >>

\* main.cpp line 57: std::chrono::seconds(60)
ObservationWindow == 60

NoReport == [has |-> FALSE, ws |-> 0, calc |-> 0]

\* the main variables before main has done anything
MainIdle(p) ==
    /\ pc = p
    /\ pipeline = "none"
    /\ caught = NoError
    /\ errOut = NoError
    /\ uri = EmptyStr
    /\ flag = FALSE
    /\ WebSocketRequestsCount = 0
    /\ heavyTasksCount = 0
    /\ mutex = "free"
    /\ wsPc = "none"
    /\ calcPc = "none"
    /\ elapsed = 0
    /\ waited = 0
    /\ reported = NoReport
    /\ exitStatus = -1
    /\ loaderFailed = FALSE
    /\ spawnFailure = "none"
    /\ everStarted = {}
    /\ reportCount = 0

\* no ConfigManager exists
NoConfigManager ==
    /\ constructed = FALSE
    /\ m_mode = "demo"
    /\ m_configPath = << "config", "/" >>
    /\ m_config = NullDoc
    /\ lastCall = "none"
    /\ input = NoInput
    /\ ret = NoConfig
    /\ thrown = NoError
    /\ cerr = << >>

(***************************************************************************)
(* The ConfigManager under any sequence of calls.                          *)
(***************************************************************************)
CMInit ==
    /\ NoConfigManager
    /\ MainIdle("idle")
    /\ defect = "none"

\* ConfigManager configManager(mode, configPath)
CM_Construct(mode, configPath) ==
    LET e == ConfigManagerCtor(mode, configPath) IN
    /\ constructed' = (e = NoError)
    /\ m_mode' = mode
    /\ m_configPath' = configPath
    /\ m_config' = NullDoc
    /\ lastCall' = "ConfigManager"
    /\ input' = NoInput
    /\ ret' = NoConfig
    /\ thrown' = e
    /\ cerr' = << >>

\* configManager.loadConfig() with the file holding content
CM_loadConfig(content) ==
    /\ constructed
    /\ \E r \in loadConfig(m_config, m_mode, m_configPath, content) :
          /\ m_config' = r.m_config
          /\ thrown' = r.thrown
          /\ cerr' = r.cerr
    /\ lastCall' = "loadConfig"
    /\ input' = content
    /\ ret' = NoConfig
    /\ UNCHANGED << constructed, m_mode, m_configPath >>

\* configManager.getOKXConfig()
CM_getOKXConfig ==
    /\ constructed
    /\ LET r == getOKXConfig(m_config) IN
          /\ ret' = r.ret
          /\ thrown' = r.thrown
    /\ lastCall' = "getOKXConfig"
    /\ cerr' = << >>
    /\ UNCHANGED << constructed, m_mode, m_configPath, m_config, input >>

CMNext ==
    \/ \E mode \in Modes, configPath \in Paths : CM_Construct(mode, configPath) /\ UNCHANGED mainVars
    \/ \E content \in Files : CM_loadConfig(content) /\ UNCHANGED mainVars
    \/ CM_getOKXConfig /\ UNCHANGED mainVars

CMSpec == CMInit /\ [][CMNext]_vars

(***************************************************************************)
(* main: the orchestrator.  The try block (lines 18-65) and the handler    *)
(* (lines 66-99) run the same pipeline code; `pipeline` says which one.    *)
(***************************************************************************)
DestroyConfigManager ==
    /\ constructed' = FALSE
    /\ m_mode' = "demo"
    /\ m_configPath' = << "config", "/" >>
    /\ m_config' = NullDoc
    /\ lastCall' = "none"
    /\ input' = NoInput
    /\ ret' = NoConfig
    /\ thrown' = NoError
    /\ cerr' = << >>

\* the locals of a pipeline block as they are constructed (lines 39-42 / 72-75),
\* which is also how the model holds them once the block is left
FreshRunState(u) ==
    /\ uri' = u
    /\ flag' = FALSE
    /\ WebSocketRequestsCount' = 0
    /\ heavyTasksCount' = 0
    /\ mutex' = "free"
    /\ elapsed' = 0
    /\ waited' = 0

\* an exception e leaves the try block with no joinable std::thread alive:
\* the locals are destroyed and the handler at line 66 is entered
EnterHandler(e) ==
    /\ pc' = "catch"
    /\ caught' = e
    /\ DestroyConfigManager
    /\ FreshRunState(EmptyStr)
    /\ UNCHANGED << pipeline, errOut, wsPc, calcPc, reported, exitStatus, everStarted, reportCount, defect >>

\* std::terminate: the process aborts, whatever the workers are doing
Terminate ==
    /\ pc' = "aborted"
    /\ exitStatus' = 134
    /\ UNCHANGED << cmVars, pipeline, caught, errOut, runVars, reported, loaderFailed, everStarted, reportCount, defect >>

\* line 22: ConfigManager configManager("demo")
M_Construct ==
    /\ pc = "start"
    /\ LET e == ConfigManagerCtor("demo", << "config", "/" >>) IN
         IF e = NoError
         THEN /\ CM_Construct("demo", << "config", "/" >>)
              /\ pc' = "load"
              /\ UNCHANGED << pipeline, caught, errOut, runVars, reported, exitStatus, histVars >>
         ELSE /\ EnterHandler(e)
              /\ loaderFailed' = TRUE
              /\ UNCHANGED spawnFailure

\* line 23: configManager.loadConfig()
M_loadConfig(content) ==
    /\ pc = "load"
    /\ \E r \in loadConfig(m_config, m_mode, m_configPath, content) :
         IF r.thrown = NoError
         THEN /\ m_config' = r.m_config
              /\ thrown' = r.thrown
              /\ cerr' = r.cerr
              /\ lastCall' = "loadConfig"
              /\ input' = content
              /\ ret' = NoConfig
              /\ pc' = "get"
              /\ UNCHANGED << constructed, m_mode, m_configPath >>
              /\ UNCHANGED << pipeline, caught, errOut, runVars, reported, exitStatus, histVars >>
         ELSE /\ EnterHandler(r.thrown)
              /\ loaderFailed' = TRUE
              /\ UNCHANGED spawnFailure

\* lines 26-36: okxConfig = configManager.getOKXConfig(); uri = okxConfig.url_pub
M_getOKXConfig ==
    /\ pc = "get"
    /\ LET r == getOKXConfig(m_config) IN
         IF r.thrown = NoError
         THEN /\ CM_getOKXConfig
              /\ uri' = r.ret.cfg.url_pub
              /\ pipeline' = "configured"
              /\ pc' = "setup"
              /\ UNCHANGED << caught, errOut, flag, WebSocketRequestsCount, heavyTasksCount, mutex,
                              wsPc, calcPc, elapsed, waited, reported, exitStatus, histVars >>
         ELSE /\ EnterHandler(r.thrown)
              /\ loaderFailed' = TRUE
              /\ UNCHANGED spawnFailure

\* a handler that reports the exception and gives up instead of falling back
M_Catch_GiveUp ==
    /\ pc = "catch"
    /\ errOut' = caught
    /\ pc' = "aborted"
    /\ exitStatus' = 134
    /\ UNCHANGED << cmVars, pipeline, caught, runVars, reported, histVars >>

\* lines 66-68: the handler reports e.what() and falls back
M_Catch ==
    /\ pc = "catch"
    /\ errOut' = caught
    /\ pipeline' = "fallback"
    /\ pc' = "setup"
    /\ UNCHANGED << cmVars, caught, runVars, reported, exitStatus, histVars >>

\* lines 38-49 / 71-83: flag(false), the two counters at 0, the mutex, the
\* calculation and the web socket on uri
P_Setup ==
    /\ pc = "setup"
    /\ FreshRunState(IF pipeline = "fallback" THEN DefaultUri ELSE uri)
    /\ pc' = "spawn_ws"
    /\ UNCHANGED << cmVars, pipeline, caught, errOut, wsPc, calcPc, reported, exitStatus, histVars >>

\* lines 51-52 / 85-86: std::thread webSocketThread; the constructor throws
\* std::system_error when the thread cannot be started
P_SpawnWs(ok) ==
    /\ pc = "spawn_ws"
    /\ IF ok
       THEN /\ wsPc' = "top"
            /\ everStarted' = everStarted \cup { << pipeline, "ws" >> }
            /\ pc' = "spawn_calc"
            /\ UNCHANGED << cmVars, pipeline, caught, errOut, uri, flag, WebSocketRequestsCount,
                            heavyTasksCount, mutex, calcPc, elapsed, waited, reported, exitStatus,
                            loaderFailed, spawnFailure, reportCount, defect >>
       ELSE /\ spawnFailure' = pipeline
            /\ IF pipeline = "configured"
               THEN EnterHandler(Error("std::system_error", << >>, "")) /\ UNCHANGED loaderFailed
               ELSE Terminate /\ UNCHANGED << wsPc, calcPc >>

\* a failure to start the second thread that reaches the handler like any exception
P_SpawnCalc_FailureCaught(ok) ==
    /\ pc = "spawn_calc"
    /\ IF ok
       THEN /\ calcPc' = "top"
            /\ everStarted' = everStarted \cup { << pipeline, "calc" >> }
            /\ pc' = "sleep"
            /\ elapsed' = 0
            /\ UNCHANGED << cmVars, pipeline, caught, errOut, uri, flag, WebSocketRequestsCount,
                            heavyTasksCount, mutex, wsPc, waited, reported, exitStatus,
                            loaderFailed, spawnFailure, reportCount, defect >>
       ELSE /\ spawnFailure' = pipeline
            /\ IF pipeline = "configured"
               THEN EnterHandler(Error("std::system_error", << >>, "")) /\ UNCHANGED loaderFailed
               ELSE Terminate /\ UNCHANGED << wsPc, calcPc >>

\* lines 54-55 / 88-89: std::thread calculationThread.  When its constructor
\* throws, webSocketThread is joinable: in the try block unwinding destroys it
\* and its destructor calls std::terminate; in the handler nothing catches
P_SpawnCalc(ok) ==
    /\ pc = "spawn_calc"
    /\ IF ok
       THEN /\ calcPc' = "top"
            /\ everStarted' = everStarted \cup { << pipeline, "calc" >> }
            /\ pc' = "sleep"
            /\ elapsed' = 0
            /\ UNCHANGED << cmVars, pipeline, caught, errOut, uri, flag, WebSocketRequestsCount,
                            heavyTasksCount, mutex, wsPc, waited, reported, exitStatus,
                            loaderFailed, spawnFailure, reportCount, defect >>
       ELSE /\ spawnFailure' = pipeline
            /\ Terminate
            /\ UNCHANGED << wsPc, calcPc >>

\* time passes while main sleeps (line 57 / 91) or waits in a join
P_Tick ==
    /\ \/ /\ pc = "sleep"
          /\ elapsed < ObservationWindow + MaxOversleep
          /\ elapsed' = elapsed + 1
          /\ UNCHANGED waited
       \/ /\ pc \in {"join_calc", "join_ws"}
          /\ waited < MaxWait
          /\ waited' = waited + 1
          /\ UNCHANGED elapsed
    /\ UNCHANGED << cmVars, pc, pipeline, caught, errOut, uri, flag, WebSocketRequestsCount,
                    heavyTasksCount, mutex, wsPc, calcPc, reported, exitStatus, histVars >>

\* a sleep_for that may return at any time
P_Wake_Early ==
    /\ pc = "sleep"
    /\ pc' = "store"
    /\ UNCHANGED << cmVars, pipeline, caught, errOut, runVars, reported, exitStatus, histVars >>

\* line 57 / 91: sleep_for(seconds(60)) returns once at least 60 s have passed
P_Wake ==
    /\ pc = "sleep"
    /\ elapsed >= ObservationWindow
    /\ pc' = "store"
    /\ UNCHANGED << cmVars, pipeline, caught, errOut, runVars, reported, exitStatus, histVars >>

\* a stop request made while holding the workers' mutex, which is never released
P_StoreFlag_HoldingMutex ==
    /\ pc = "store"
    /\ mutex = "free"
    /\ mutex' = "main"
    /\ flag' = TRUE
    /\ pc' = "join_calc"
    /\ UNCHANGED << cmVars, pipeline, caught, errOut, uri, WebSocketRequestsCount, heavyTasksCount,
                    wsPc, calcPc, elapsed, waited, reported, exitStatus, histVars >>

\* line 58 / 92: flag.store(true)
P_StoreFlag ==
    /\ pc = "store"
    /\ flag' = TRUE
    /\ pc' = "join_calc"
    /\ UNCHANGED << cmVars, pipeline, caught, errOut, uri, WebSocketRequestsCount, heavyTasksCount,
                    mutex, wsPc, calcPc, elapsed, waited, reported, exitStatus, histVars >>

\* a join that returns although the worker is still running
P_JoinCalc_NoWait ==
    /\ pc = "join_calc"
    /\ pc' = "join_ws"
    /\ UNCHANGED << cmVars, pipeline, caught, errOut, runVars, reported, exitStatus, histVars >>

\* line 60 / 94: calculationThread.join() returns when the compute worker has returned
P_JoinCalc ==
    /\ pc = "join_calc"
    /\ calcPc = "done"
    /\ pc' = "join_ws"
    /\ UNCHANGED << cmVars, pipeline, caught, errOut, runVars, reported, exitStatus, histVars >>

\* a join that returns although the worker is still running
P_JoinWs_NoWait ==
    /\ pc = "join_ws"
    /\ pc' = "report"
    /\ UNCHANGED << cmVars, pipeline, caught, errOut, runVars, reported, exitStatus, histVars >>

\* line 61 / 95: webSocketThread.join() returns when the ingestion worker has returned
P_JoinWs ==
    /\ pc = "join_ws"
    /\ wsPc = "done"
    /\ pc' = "report"
    /\ UNCHANGED << cmVars, pipeline, caught, errOut, runVars, reported, exitStatus, histVars >>

\* lines 63-64 / 97-98: print webSocket.m_WebSocketRequestsCount and heavyTasksCount
P_Report ==
    /\ pc = "report"
    /\ reported' = [has |-> TRUE, ws |-> WebSocketRequestsCount, calc |-> heavyTasksCount]
    /\ reportCount' = reportCount + 1
    /\ pc' = "return"
    /\ UNCHANGED << cmVars, pipeline, caught, errOut, runVars, exitStatus,
                    loaderFailed, spawnFailure, everStarted, defect >>

\* line 101: return 0
M_Return ==
    /\ pc = "return"
    /\ pc' = "exited"
    /\ exitStatus' = 0
    /\ UNCHANGED << cmVars, pipeline, caught, errOut, runVars, reported, histVars >>

(***************************************************************************)
(* The workers.  WebSocketClass::wsrun and CalculationClass::run are not   *)
(* among the sources; they follow sections 4.1, 4.2 and 5 of the design.   *)
(***************************************************************************)
Running == pc \notin {"exited", "aborted"}

wsUnchanged == << cmVars, pc, pipeline, caught, errOut, uri, flag, heavyTasksCount, calcPc,
                  elapsed, waited, reported, exitStatus, histVars >>

calcUnchanged == << cmVars, pc, pipeline, caught, errOut, uri, flag, WebSocketRequestsCount, wsPc,
                    elapsed, waited, reported, exitStatus, histVars >>

\* top of the receive loop: the cancellation checkpoint
Ws_Top ==
    /\ Running /\ wsPc = "top"
    /\ wsPc' = IF flag /\ defect # "ws" THEN "done" ELSE "recv"
    /\ UNCHANGED << wsUnchanged, WebSocketRequestsCount, mutex >>

\* a frame arrives and is counted; it parses as a book update or is discarded
Ws_RecvFrame(parses) ==
    /\ Running /\ wsPc = "recv"
    /\ WebSocketRequestsCount < MaxFrames
    /\ WebSocketRequestsCount' = WebSocketRequestsCount + 1
    /\ wsPc' = IF parses THEN "lock" ELSE "top"
    /\ UNCHANGED << wsUnchanged, mutex >>

\* no frame arrives before the receive gives up (or the connection is retried)
Ws_RecvNone ==
    /\ Running /\ wsPc = "recv"
    /\ wsPc' = "top"
    /\ UNCHANGED << wsUnchanged, WebSocketRequestsCount, mutex >>

\* the book update takes the lock
Ws_Lock ==
    /\ Running /\ wsPc = "lock"
    /\ mutex = "free"
    /\ mutex' = "ws"
    /\ wsPc' = "update"
    /\ UNCHANGED << wsUnchanged, WebSocketRequestsCount >>

\* the in-memory update is done and the lock released
Ws_Update ==
    /\ Running /\ wsPc = "update"
    /\ mutex' = "free"
    /\ wsPc' = "top"
    /\ UNCHANGED << wsUnchanged, WebSocketRequestsCount >>

\* the compute loop's condition: the cancellation checkpoint
Calc_Top ==
    /\ Running /\ calcPc = "top"
    /\ calcPc' = IF flag /\ defect # "calc" THEN "done" ELSE "lock"
    /\ UNCHANGED << calcUnchanged, heavyTasksCount, mutex >>

\* the snapshot copy takes the lock
Calc_Lock ==
    /\ Running /\ calcPc = "lock"
    /\ mutex = "free"
    /\ mutex' = "calc"
    /\ calcPc' = "copy"
    /\ UNCHANGED << calcUnchanged, heavyTasksCount >>

\* the copy is done and the lock released before the inversion
Calc_Copy ==
    /\ Running /\ calcPc = "copy"
    /\ mutex' = "free"
    /\ calcPc' = "invert"
    /\ UNCHANGED << calcUnchanged, heavyTasksCount >>

\* the inversion completes and is counted, or the matrix is singular and the
\* iteration is abandoned
Calc_Invert(completes) ==
    /\ Running /\ calcPc = "invert"
    /\ completes => heavyTasksCount < MaxInversions
    /\ heavyTasksCount' = IF completes THEN heavyTasksCount + 1 ELSE heavyTasksCount
    /\ calcPc' = "top"
    /\ UNCHANGED << calcUnchanged, mutex >>

(***************************************************************************)
(* Specifications.                                                         *)
(***************************************************************************)
MainFiles == Files

Init ==
    /\ NoConfigManager
    /\ MainIdle("start")
    /\ defect = "none"

\* as Init, with a worker that may be defective: it never observes the flag
DefectInit ==
    /\ NoConfigManager
    /\ MainIdle("start")
    /\ defect \in {"none", "ws", "calc"}

MainNext ==
    \/ M_Construct
    \/ \E content \in MainFiles : M_loadConfig(content)
    \/ M_getOKXConfig
    \/ M_Catch
    \/ P_Setup
    \/ \E ok \in BOOLEAN : P_SpawnWs(ok)
    \/ \E ok \in BOOLEAN : P_SpawnCalc(ok)
    \/ P_Wake
    \/ P_StoreFlag
    \/ P_JoinCalc
    \/ P_JoinWs
    \/ P_Report
    \/ M_Return

WsNext ==
    \/ Ws_Top
    \/ \E parses \in BOOLEAN : Ws_RecvFrame(parses)
    \/ Ws_RecvNone
    \/ Ws_Lock
    \/ Ws_Update

CalcNext ==
    \/ Calc_Top
    \/ Calc_Lock
    \/ Calc_Copy
    \/ \E completes \in BOOLEAN : Calc_Invert(completes)

Next == MainNext \/ WsNext \/ CalcNext \/ P_Tick

\* every thread that can take a step eventually takes one, and time passes
Fairness ==
    /\ WF_vars(MainNext)
    /\ WF_vars(WsNext)
    /\ WF_vars(CalcNext)
    /\ WF_vars(P_Tick)

Spec == Init /\ [][Next]_vars

FairSpec == Init /\ [][Next]_vars /\ Fairness

DefectFairSpec == DefectInit /\ [][Next]_vars /\ Fairness

(***************************************************************************)
(* What the specification says of a configuration, stated apart from the   *)
(* loader's code.                                                          *)
(***************************************************************************)
HasPrefix(s, p) == Len(s) >= Len(p) /\ SubSeq(s, 1, Len(p)) = p

WebsocketUrl(s) == HasPrefix(s, WsPrefix) \/ HasPrefix(s, WssPrefix)

UrlFields == {"url_pub", "url_private"}

\* ConnectionConfig invariant: all fields non-empty, URLs begin with ws:// or wss://
ConnectionConfigInvariant(cfg) ==
    /\ \A f \in FieldNames : cfg[f] # EmptyStr
    /\ \A f \in UrlFields : WebsocketUrl(cfg[f])

\* the fields of a section that are missing, not a string, empty, or a URL
\* without a websocket scheme
OffendingFields(sec) ==
    { f \in FieldNames :
        \/ sec.type # "object"
        \/ sec.fields[f].type # "string"
        \/ sec.fields[f].str = EmptyStr
        \/ f \in UrlFields /\ ~WebsocketUrl(sec.fields[f].str) }

ViolatesValidation(content) ==
    /\ content.kind = "json"
    /\ content.doc.type = "object"
    /\ content.doc.sec.type # "absent"
    /\ OffendingFields(content.doc.sec) # {}

WellFormed(content) ==
    /\ content.kind = "json"
    /\ content.doc.type = "object"
    /\ content.doc.sec.type = "object"
    /\ OffendingFields(content.doc.sec) = {}

(***************************************************************************)
(* C3.  Every ConnectionConfig that getOKXConfig() returns, after any      *)
(* sequence of loadConfig() and getOKXConfig() calls, satisfies the        *)
(* ConnectionConfig invariant: five non-empty fields, both URLs beginning  *)
(* with ws:// or wss://.                                                   *)
(***************************************************************************)
C3_ReturnedConfigValid ==
    (lastCall = "getOKXConfig" /\ ret.has) => ConnectionConfigInvariant(ret.cfg)

(***************************************************************************)
(* C4 as claimed.  When the configuration violates validation, the error   *)
(* loadConfig() throws names the offending field.                          *)
(***************************************************************************)
C4_ErrorNamesField ==
    (lastCall = "loadConfig" /\ ViolatesValidation(input))
        => thrown.field \in OffendingFields(input.doc.sec)

(***************************************************************************)
(* C4 as amended.  When the configuration violates validation,             *)
(* loadConfig() throws an error that names only the configuration file;    *)
(* the offending field is named by the one diagnostic line written to      *)
(* std::cerr, which for a missing, non-string or empty field carries the   *)
(* name of an offending field and for a URL without websocket scheme says  *)
(* which endpoint (public or private) and prints its value.                *)
(***************************************************************************)
C4_DiagnosticNamesField ==
    (lastCall = "loadConfig" /\ ViolatesValidation(input)) =>
        LET sec == input.doc.sec
            bad == OffendingFields(sec)
        IN /\ thrown.what = "Invalid configuration structure in file"
           /\ thrown.path = m_configPath
                                \o (IF m_configPath[Len(m_configPath)] = "/" THEN << >> ELSE << "/" >>)
                                \o << m_mode, ".json" >>
           /\ thrown.field = ""
           /\ Len(cerr) = 1
           /\ \/ cerr[1].field \in bad
              \/ /\ cerr[1].field = ""
                 /\ cerr[1].text = "Invalid public URL format"
                 /\ "url_pub" \in bad
                 /\ cerr[1].url = sec.fields["url_pub"].str
              \/ /\ cerr[1].field = ""
                 /\ cerr[1].text = "Invalid private URL format"
                 /\ "url_private" \in bad
                 /\ cerr[1].url = sec.fields["url_private"].str

\* a configuration without API_secret has been rejected
C4_Witness ==
    /\ lastCall = "loadConfig"
    /\ ViolatesValidation(input)
    /\ OffendingFields(input.doc.sec) = {"API_secret"}
    /\ thrown # NoError
    /\ cerr # << >>

(***************************************************************************)
(* C5.  For a well-formed configuration input, loadConfig() succeeds,      *)
(* isLoaded() is then true, and getOKXConfig() returns exactly the five    *)
(* values of the input, each in its own field.                             *)
(***************************************************************************)
C5_WellFormedRoundTrip ==
    /\ (lastCall = "loadConfig" /\ WellFormed(input))
            => (thrown = NoError /\ isLoaded(m_config))
    /\ (lastCall = "getOKXConfig" /\ WellFormed(input))
            => /\ thrown = NoError
               /\ ret.has
               /\ \A f \in FieldNames : ret.cfg[f] = input.doc.sec.fields[f].str

\* a well-formed configuration with a ws:// public endpoint has been loaded and read
C5_Witness ==
    /\ lastCall = "getOKXConfig"
    /\ WellFormed(input)
    /\ ret.has
    /\ ret.cfg.url_pub = UrlWsB
    /\ ret.cfg.API_secret = SecretS

(***************************************************************************)
(* What the claims say of a run of main.                                   *)
(***************************************************************************)
JoinStates == {"join_calc", "join_ws"}

AfterJoins == {"report", "return", "exited"}

\* the messages of the exceptions the ConfigManager throws
LoaderErrors ==
    { "Invalid mode", "Configuration file not found", "Failed to open configuration file",
      "Failed to parse JSON configuration", "Invalid configuration structure in file",
      "Configuration not loaded", "OKXDataSrc configuration not found",
      "Failed to parse OKX configuration" }

\* the fallback pipeline ran from launch to report on the default endpoint
FallbackCompleted ==
    /\ errOut.what \in LoaderErrors
    /\ pipeline = "fallback"
    /\ uri = DefaultUri
    /\ everStarted = { << "fallback", "ws" >>, << "fallback", "calc" >> }
    /\ flag
    /\ elapsed >= ObservationWindow
    /\ wsPc = "done"
    /\ calcPc = "done"
    /\ reported.has
    /\ exitStatus = 0

C2_SpawnFailureIsFatal ==
    spawnFailure # "none" =>
        /\ ~(spawnFailure = "configured" /\ pipeline = "fallback")
        /\ exitStatus # 0

(***************************************************************************)
(* C6.  The cancellation flag goes from false to true once and one way     *)
(* only: it is false while the workers are launched and during the         *)
(* observation window, only the orchestrator's store sets it, only after   *)
(* the window has elapsed, and once true it stays true.                    *)
(***************************************************************************)
C6_FlagOneWay ==
    /\ [][ /\ flag => flag'
           /\ (~flag /\ flag') => /\ pc = "store"
                                  /\ pc' = "join_calc"
                                  /\ elapsed >= ObservationWindow
                                  /\ wsPc # "none" /\ calcPc # "none" ]_vars
    /\ [](pc \in {"spawn_ws", "spawn_calc", "sleep", "store"} => ~flag)

\* the flag has been set after the window, with both workers still in their loops
C6_Witness ==
    /\ flag
    /\ pc = "join_calc"
    /\ elapsed >= ObservationWindow
    /\ wsPc \notin {"none", "done"}
    /\ calcPc \notin {"none", "done"}

(***************************************************************************)
(* C7.  Once the flag is true both workers terminate, each at its next     *)
(* cancellation checkpoint, and both joins return: the orchestrator        *)
(* reaches the reporting step.                                             *)
(***************************************************************************)
C7_WorkersTerminate ==
    /\ (flag ~> (wsPc = "done" /\ calcPc = "done" /\ pc \in AfterJoins))
    /\ [][ /\ (flag /\ wsPc = "top" /\ wsPc' # wsPc) => wsPc' = "done"
           /\ (flag /\ calcPc = "top" /\ calcPc' # calcPc) => calcPc' = "done" ]_vars

\* the orchestrator had to wait in a join and has reached the reporting step
C7_Witness ==
    /\ flag
    /\ pc = "report"
    /\ waited > 0
    /\ wsPc = "done"
    /\ calcPc = "done"

(***************************************************************************)
(* C8 as claimed.  The orchestrator's wait for the workers is bounded:     *)
(* even with a worker that never observes the flag it eventually stops     *)
(* waiting.                                                                *)
(***************************************************************************)
C8_WaitIsBounded ==
    (pc \in JoinStates) ~> (pc \notin JoinStates)

(***************************************************************************)
(* C8 as amended.  The orchestrator's wait is not bounded: each join       *)
(* returns only when its worker has returned, so with a worker that never  *)
(* observes the flag the orchestrator stays in a join and never reports.   *)
(***************************************************************************)
C8_JoinWaitsForWorker ==
    /\ [][ /\ (pc = "join_calc" /\ pc' # pc) => (calcPc = "done" /\ pc' = "join_ws")
           /\ (pc = "join_ws" /\ pc' # pc) => (wsPc = "done" /\ pc' = "report") ]_vars
    /\ []((defect # "none" /\ flag) => (pc \in JoinStates /\ ~reported.has))

\* the compute worker never observes the flag; main is still in the first join
\* after the longest wait observed, the ingestion worker long returned
C8_Witness ==
    /\ defect = "calc"
    /\ flag
    /\ pc = "join_calc"
    /\ waited = MaxWait
    /\ wsPc = "done"

(***************************************************************************)
(* C9.  The totals are read and reported only after both workers have been *)
(* joined: the reported values are those of the counters the workers       *)
(* increment, and no counter changes after it has been reported.           *)
(***************************************************************************)
C9_ReportAfterJoin ==
    /\ pc \in AfterJoins => (wsPc = "done" /\ calcPc = "done")
    /\ reported.has => /\ wsPc = "done"
                       /\ calcPc = "done"
                       /\ reported.ws = WebSocketRequestsCount
                       /\ reported.calc = heavyTasksCount

\* the totals of a run in which both workers counted have been reported
C9_Witness ==
    /\ reported.has
    /\ reported.ws > 0
    /\ reported.calc > 0
    /\ pc = "exited"

(***************************************************************************)
(* C10.  At most one pipeline ever has workers: the fallback pipeline is   *)
(* entered only if no worker of the configured pipeline was ever started,  *)
(* and the totals are reported at most once.                               *)
(***************************************************************************)
C10_OnePipeline ==
    /\ \A a \in everStarted, b \in everStarted : a[1] = b[1]
    /\ (pc = "catch" \/ pipeline = "fallback") => \A a \in everStarted : a[1] = "fallback"
    /\ reportCount <= 1
    /\ reported.has => reportCount = 1

\* the fallback pipeline ran to its report after the configured one failed to start
C10_Witness ==
    /\ spawnFailure = "configured"
    /\ pipeline = "fallback"
    /\ everStarted = { << "fallback", "ws" >>, << "fallback", "calc" >> }
    /\ reportCount = 1

====
